---- MODULE Spec2Model ----
(***************************************************************************)
(* Model of the qr_benchmark analysis scripts:                             *)
(*   viz.py            generate_visualizations (four charts from the log)  *)
(*   debug_data.py     category / success overview of the log              *)
(*   debug_decoded.py  decoded_text frequencies among Incorrect records    *)
(*   debug_status.py   status frequencies outside the decoding category    *)
(*   debug_viz.py      visualize_debug (geometry overlay of one snapshot)  *)
(* Each run is one process started on a file system chosen in Init.        *)
(* Printed lines are tuples <<text, argument, ...>>; a float x/1000.0 is   *)
(* the pair <<x, 1000>>; a mean is the pair <<sum, count>>.                *)
(***************************************************************************)
EXTENDS Integers, Sequences, FiniteSets, TLC

\* ------------------------------------------------------------ bounds
MaxRows == 2
MaxDetections == 2
MaxGroundTruth == 2

\* ------------------------------------------------------------ input domains
Categories == {"decoding", "blur"}
CsvLibraries == {"rqrr", "rxing"}
ExpectedText == "A"
\* <<status, decoded_text, duration_us>> of one attempt as the harness writes
\* them; an empty decoded_text is a field left empty in the file
Outcomes ==
  { <<"Correct", "A", 1500>>, <<"Correct", "B", 0>>, <<"Incorrect", "B", 2500>>,
    <<"Incorrect", "", 700>>, <<"NotFound", "", 300>> }

AllColumns ==
  { "file_path", "category", "library", "status", "expected_text",
    "decoded_text", "duration_us" }
ColumnSets ==
  { AllColumns, AllColumns \ {"duration_us"}, AllColumns \ {"category"} }

CsvRow ==
  { [category |-> c, library |-> l, status |-> o[1], expected_text |-> ExpectedText,
     decoded_text |-> o[2], duration_us |-> o[3]] :
      c \in Categories, l \in CsvLibraries, o \in Outcomes }

SeqsUpTo(S, n) == UNION { [1..k -> S] : k \in 0..n }

DefaultCsv == "raw_measurements.csv"
FallbackCsv == "qr_benchmark/raw_measurements.csv"
DefaultJson == "debug_output.json"
ImagePath == "images/qr.png"
ParentImagePath == "../images/qr.png"

VARIABLES
  prog,       \* the entry point that was started
  pc,         \* its position
  files,      \* the paths that exist
  columns,    \* header of the measurement log
  rows,       \* its rows, as written in the file
  df,         \* the frame the program holds
  correct_decodes,
  charts,     \* file name -> the data the chart was drawn from
  written,    \* image files saved
  printed,    \* lines on standard output
  uncaught,   \* the uncaught exception whose traceback ended the process, or "none"
  snapshot,   \* content of debug_output.json ("malformed" when unparsable)
  imageOk,    \* whether the raster can be decoded
  image_path,
  patches,    \* polygons added to the axes
  markers,    \* vertex markers plotted
  legend      \* rows of the legend

vars ==
  << prog, pc, files, columns, rows, df, correct_decodes, charts, written,
     printed, uncaught, snapshot, imageOk, image_path, patches, markers, legend >>

csvVars == << df, correct_decodes, charts >>
overlayVars == << image_path, patches, markers, legend >>
inputVars == << prog, files, columns, rows, snapshot, imageOk >>

\* ------------------------------------------------------------ helpers
RECURSIVE Sum(_)
Sum(s) == IF s = <<>> THEN 0 ELSE Head(s) + Sum(Tail(s))

Column(frame, field) == [i \in 1..Len(frame) |-> frame[i][field]]

Range(s) == { s[i] : i \in 1..Len(s) }

FileExists(path) == path \in files

HasColumnAlways(c) == TRUE
HasColumn(c) == c \in columns

\* pandas.read_csv: an empty field is read as NaN
NaN == "NaN"
ParseField(v) == IF v = "" THEN NaN ELSE v
ReadCsv(file) ==
  [i \in 1..Len(file) |->
     [f \in DOMAIN file[i] |->
        IF f = "duration_us" THEN file[i][f] ELSE ParseField(file[i][f])]]

\* ------------------------------------------------------------ viz.py
DurationMs(us) == <<us, 1000>>

SuccessNumericLenient(status) == IF status # "Incorrect" THEN 1 ELSE 0
SuccessNumeric(status) == IF status = "Correct" THEN 1 ELSE 0

Preprocess(frame) ==
  [i \in 1..Len(frame) |->
     [f \in DOMAIN frame[i] \cup {"duration_ms", "success_numeric"} |->
        IF f = "duration_ms" THEN DurationMs(frame[i].duration_us)
        ELSE IF f = "success_numeric" THEN SuccessNumeric(frame[i].status)
        ELSE frame[i][f]]]

CorrectDecodesUnfiltered(frame) == frame
CorrectDecodes(frame) == SelectSeq(frame, LAMBDA r : r.status = "Correct")

\* seaborn's grouping of a frame by the columns given as x and hue
GroupBy(frame, by) ==
  LET keys == { [f \in by |-> frame[i][f]] : i \in 1..Len(frame) }
  IN [k \in keys |-> SelectSeq(frame, LAMBDA r : \A f \in by : r[f] = k[f])]

MeanInt(values) == <<Sum(values), Len(values)>>
MeanMs(values) == <<Sum([i \in 1..Len(values) |-> values[i][1]]), 1000 * Len(values)>>

KdeData(frame) ==
  LET g == GroupBy(frame, {"library"})
  IN [k \in DOMAIN g |-> [samples |-> Column(g[k], "duration_ms")]]

\* line 48: the axis shows the mean of success_numeric as a percentage
Percent(mean) == <<100 * mean[1], mean[2]>>

BarData(frame) ==
  LET g == GroupBy(frame, {"category", "library"})
  IN [k \in DOMAIN g |-> [mean |-> MeanInt(Column(g[k], "success_numeric"))]]

PointData(frame) ==
  LET g == GroupBy(frame, {"category", "library"})
  IN [k \in DOMAIN g |->
        [samples |-> Column(g[k], "duration_ms"),
         mean |-> MeanMs(Column(g[k], "duration_ms"))]]

BoxData(frame) ==
  LET g == GroupBy(frame, {"category", "library"})
  IN [k \in DOMAIN g |-> [samples |-> Column(g[k], "duration_ms")]]

Crash(exc, lines) ==
  /\ pc' = "crashed"
  /\ uncaught' = exc
  /\ printed' = printed \o lines

SaveChart(file, data, lines, next) ==
  /\ charts' = charts @@ (file :> data)
  /\ written' = written \cup {file}
  /\ printed' = printed \o lines
  /\ pc' = next
  /\ UNCHANGED uncaught

VizLoad ==
  /\ prog = "viz" /\ pc = "start"
  /\ UNCHANGED << inputVars, overlayVars, written, charts >>
  /\ IF ~FileExists(DefaultCsv)
     THEN /\ printed' = Append(printed, <<"Error: not found.", DefaultCsv>>)
          /\ pc' = "returned"
          /\ UNCHANGED << df, correct_decodes, uncaught >>
     ELSE IF ~HasColumn("duration_us")
     THEN /\ Crash("KeyError: duration_us", << <<"Loading data...">> >>)
          /\ df' = ReadCsv(rows)
          /\ UNCHANGED correct_decodes
     ELSE /\ df' = Preprocess(ReadCsv(rows))
          /\ correct_decodes' = CorrectDecodes(df')
          /\ printed' = Append(printed, <<"Loading data...">>)
          /\ pc' = "chart1"
          /\ UNCHANGED uncaught

\* A chart drawn from correct_decodes. What plotting an empty frame does is
\* decided by the plotting libraries (the 0.95 quantile of no samples is NaN
\* and is handed to plt.xlim); the source neither tests for it nor catches it:
\* the call either raises, ending the process, or draws an empty chart.
DurationChart(at, file, data, line, next, closing) ==
  /\ prog = "viz" /\ pc = at
  /\ UNCHANGED << inputVars, overlayVars, df, correct_decodes >>
  /\ \/ SaveChart(file, data, <<line>> \o closing, next)
     \/ /\ correct_decodes = <<>>
        /\ Crash("ValueError", <<line>>)
        /\ UNCHANGED << charts, written >>

VizTimeDistribution ==
  DurationChart("chart1", "dist_time.png", KdeData(correct_decodes),
                <<"Generating time distribution plot...">>, "chart2", <<>>)

VizSuccessRates ==
  /\ prog = "viz" /\ pc = "chart2"
  /\ UNCHANGED << inputVars, overlayVars, df, correct_decodes >>
  /\ LET line == <<"Generating success rates by defect type plot...">>
     IN IF HasColumn("category")
        THEN SaveChart("success_by_defect.png", BarData(df), <<line>>, "chart3")
        ELSE /\ Crash("ValueError: category", <<line>>)
             /\ UNCHANGED << charts, written >>

VizMeanPerformance ==
  DurationChart("chart3", "perf_by_defect_mean.png", PointData(correct_decodes),
                <<"Generating mean performance by defect type plot...">>, "chart4", <<>>)

VizPerformanceDistribution ==
  DurationChart("chart4", "perf_by_defect_dist.png", BoxData(correct_decodes),
                <<"Generating performance distribution by defect type plot...">>,
                "done", << <<"Done generating plots.">> >>)

\* ------------------------------------------------------------ pandas views
\* Series.unique(): the values in order of first appearance
RECURSIVE Unique(_)
Unique(s) ==
  IF s = <<>> THEN <<>>
  ELSE LET init == Unique(SubSeq(s, 1, Len(s) - 1))
           last == s[Len(s)]
       IN IF last \in Range(init) THEN init ELSE Append(init, last)

\* Series.value_counts(): dropna defaults to True, NaN entries are not counted.
\* The table is kept as value -> count; the order of its rows is not modelled.
ValueCounts(s) ==
  [v \in Range(s) \ {NaN} |-> Cardinality({ i \in 1..Len(s) : s[i] = v })]

\* DataFrame.head(n)
SampleSize == 10
Head_(frame, n) == SubSeq(frame, 1, IF Len(frame) < n THEN Len(frame) ELSE n)

Project(frame, fields) ==
  [i \in 1..Len(frame) |-> [f \in fields |-> frame[i][f]]]

Finish(lines) ==
  /\ pc' = "done"
  /\ printed' = printed \o lines
  /\ UNCHANGED uncaught

\* ------------------------------------------------------------ debug_data.py
DebugData ==
  /\ prog = "debug_data" /\ pc = "start"
  /\ UNCHANGED << inputVars, overlayVars, correct_decodes, charts, written >>
  /\ LET missing == ~FileExists(DefaultCsv)
         csv_path == IF missing /\ FileExists(FallbackCsv) THEN FallbackCsv ELSE DefaultCsv
         head == (IF missing THEN << <<"File not found in current dir:", DefaultCsv>> >>
                  ELSE <<>>) \o << <<"Reading from:", csv_path>> >>
         frame == ReadCsv(rows)
         total == << <<"Total rows:", Len(frame)>> >>
         successes == GroupBy(SelectSeq(frame, LAMBDA r : r.status = "Correct"), {"category"})
     IN IF ~FileExists(csv_path)
        THEN /\ Finish(head \o << <<"FileNotFoundError", csv_path>> >>)
             /\ UNCHANGED df
        ELSE IF ~HasColumn("category")
        THEN /\ Finish(head \o total \o << <<"KeyError", "category">> >>)
             /\ df' = frame
        ELSE /\ Finish(head \o total \o
                  << <<"Categories found:", Unique(Column(frame, "category"))>>,
                     <<"Counts per category:", ValueCounts(Column(frame, "category"))>>,
                     <<"Successes by category (Correct status count):",
                       [k \in DOMAIN successes |-> Len(successes[k])]>>,
                     <<"Libraries found:", Unique(Column(frame, "library"))>> >>)
             /\ df' = frame

\* ------------------------------------------------------------ debug_decoded.py
DebugDecoded ==
  /\ prog = "debug_decoded" /\ pc = "start"
  /\ UNCHANGED << inputVars, overlayVars, charts, written >>
  /\ IF ~FileExists(DefaultCsv)
     THEN /\ Crash("FileNotFoundError", <<>>)
          /\ UNCHANGED << df, correct_decodes >>
     ELSE /\ df' = ReadCsv(rows)
          /\ LET incorrect == SelectSeq(df', LAMBDA r : r.status = "Incorrect")
             IN Finish(<< <<"Decoded text counts for Incorrect status:">>,
                          <<"value_counts", ValueCounts(Column(incorrect, "decoded_text"))>> >>)
          /\ UNCHANGED correct_decodes

\* ------------------------------------------------------------ debug_status.py
DebugStatus ==
  /\ prog = "debug_status" /\ pc = "start"
  /\ UNCHANGED << inputVars, overlayVars, charts, written >>
  /\ IF ~FileExists(DefaultCsv)
     THEN /\ Crash("FileNotFoundError", <<>>)
          /\ UNCHANGED << df, correct_decodes >>
     ELSE IF ~HasColumn("category")
     THEN /\ Crash("KeyError: category", <<>>)
          /\ df' = ReadCsv(rows)
          /\ UNCHANGED correct_decodes
     ELSE /\ df' = ReadCsv(rows)
          /\ LET non_decoding == SelectSeq(df', LAMBDA r : r.category # "decoding")
             IN Finish(<< <<"Status counts for non-decoding categories:">>,
                          <<"value_counts", ValueCounts(Column(non_decoding, "status"))>>,
                          <<"Sample rows from non-decoding:">>,
                          <<"head", Head_(Project(non_decoding,
                               {"category", "status", "expected_text", "decoded_text"}),
                               SampleSize)>> >>)
          /\ UNCHANGED correct_decodes

\* ------------------------------------------------------------ the measurement-log runs
CsvPrograms == {"viz", "debug_data", "debug_decoded", "debug_status"}

NoSnapshot == [valid |-> FALSE]

Idle ==
  /\ pc = "start"
  /\ df = <<>> /\ correct_decodes = <<>> /\ charts = <<>>
  /\ written = {} /\ printed = <<>> /\ uncaught = "none"
  /\ image_path = "" /\ patches = <<>> /\ markers = <<>> /\ legend = <<>>

\* The log is at the default path or nowhere (then it has no content); only
\* debug_data.py looks at the fallback path, so only its runs vary it.
InitCsv ==
  /\ prog \in CsvPrograms
  /\ files \in SUBSET (IF prog = "debug_data" THEN {DefaultCsv, FallbackCsv} ELSE {DefaultCsv})
  /\ IF files = {}
     THEN columns = AllColumns /\ rows = <<>>
     ELSE columns \in ColumnSets /\ rows \in SeqsUpTo(CsvRow, MaxRows)
  /\ snapshot = NoSnapshot /\ imageOk = FALSE
  /\ Idle

NextCsv ==
  \/ VizLoad
  \/ VizTimeDistribution
  \/ VizSuccessRates
  \/ VizMeanPerformance
  \/ VizPerformanceDistribution
  \/ DebugData
  \/ DebugDecoded
  \/ DebugStatus

Spec == InitCsv /\ [][NextCsv]_vars

\* ------------------------------------------------------------ debug_viz.py
OverlayLibraries == {"rqrr", "rxing", "zbar"}
DetectionStatuses == {"Correct", "NotFound"}
Triangle == << <<0, 0>>, <<4, 0>>, <<0, 3>> >>
Square == << <<1, 1>>, <<5, 1>>, <<5, 5>>, <<1, 5>> >>

Detection ==
  [library : OverlayLibraries, status : DetectionStatuses, points : {<<>>, Triangle}]

\* os.path.join("..", image_path)
ParentOf(path) == IF path = ImagePath THEN ParentImagePath ELSE "../" \o path

Colors ==
  [GroundTruth |-> "green", rqrr |-> "blue", rxing |-> "red", bardecoder |-> "orange"]
\* colors.get(lib, 'purple')
ColorOf(lib) == IF lib \in DOMAIN Colors THEN Colors[lib] ELSE "purple"

\* Image.open succeeds on a file that exists and decodes
CanOpenAlways(path) == TRUE
CanOpen(path) == FileExists(path) /\ imageOk

\* A legend label is the tuple of the parts formatted into it:
\* 'Ground Truth' is <<"Ground Truth">>, f'{lib} ({status})' is <<lib, status>>,
\* the empty label is <<>>.
GroundTruthLabel(set_idx) == IF set_idx = 0 THEN <<"Ground Truth">> ELSE <<>>
DetectionLabel(lib, status) == <<lib, status>>

VertexMarkers(pts, marker, color) ==
  [i \in 1..Len(pts) |-> [x |-> pts[i][1], y |-> pts[i][2], marker |-> marker, color |-> color]]

\* lines 45-51: one polygon per ground-truth set, enumerate() counting from 0
GroundTruthPatches(sets) ==
  [i \in 1..Len(sets) |->
     [pts |-> sets[i], linewidth |-> 3, edgecolor |-> Colors["GroundTruth"],
      linestyle |-> "-", label |-> GroundTruthLabel(i - 1)]]

RECURSIVE Flatten(_)
Flatten(ss) == IF ss = <<>> THEN <<>> ELSE Head(ss) \o Flatten(Tail(ss))

GroundTruthMarkers(sets) ==
  Flatten([i \in 1..Len(sets) |-> VertexMarkers(sets[i], "o", Colors["GroundTruth"])])

\* line 62: `if points:`
DrawsPolygonAlways(points) == TRUE
DrawsPolygon(points) == points # <<>>

\* lines 55-69, one pass of the loop over data['detections']
RECURSIVE PlotDetectionsFrom(_, _)
PlotDetectionsFrom(dets, acc) ==
  IF dets = <<>> THEN acc
  ELSE LET det == Head(dets)
           lib == det.library
           status == det.status
           points == det.points
           line == <<"Library:", lib, "Status:", status>>
           color == ColorOf(lib)
           poly == [pts |-> points, linewidth |-> 2, edgecolor |-> color,
                    linestyle |-> "--", label |-> DetectionLabel(lib, status)]
       IN PlotDetectionsFrom(Tail(dets),
            IF DrawsPolygon(points)
            THEN [lines |-> Append(acc.lines, line),
                  patches |-> Append(acc.patches, poly),
                  markers |-> acc.markers \o VertexMarkers(points, "x", color)]
            ELSE [acc EXCEPT !.lines = Append(acc.lines, line)])

\* ax.get_legend_handles_labels(): the artists carrying a non-empty label
LabelledHandles(artists) == SelectSeq(artists, LAMBDA a : a.label # <<>>)

\* dict(zip(labels, handles)): one key per distinct label, in order of first
\* appearance, holding the last handle zipped with it
DictZipKeepAll(labels, handles) ==
  [i \in 1..Len(labels) |-> [label |-> labels[i], handle |-> handles[i]]]
DictZip(labels, handles) ==
  LET keys == Unique(labels)
      LastAt(l) == CHOOSE i \in 1..Len(labels) :
                     /\ labels[i] = l
                     /\ \A j \in 1..Len(labels) : labels[j] = l => j <= i
  IN [k \in 1..Len(keys) |-> [label |-> keys[k], handle |-> handles[LastAt(keys[k])]]]

\* lines 9-33
OverlayLoad ==
  /\ prog = "debug_viz" /\ pc = "start"
  /\ UNCHANGED << inputVars, csvVars, written, patches, markers, legend >>
  /\ IF ~FileExists(DefaultJson)
     THEN /\ printed' = Append(printed, <<"Error: not found.", DefaultJson>>)
          /\ pc' = "returned"
          /\ UNCHANGED << uncaught, image_path >>
     ELSE IF ~snapshot.valid
     THEN /\ Crash("JSONDecodeError", <<>>)
          /\ UNCHANGED image_path
     ELSE LET given == snapshot.image_path
              candidate == ParentOf(given)
              path == IF ~FileExists(given) /\ FileExists(candidate) THEN candidate ELSE given
              notFound == IF ~FileExists(given) /\ ~FileExists(candidate)
                          THEN << <<"Error: Image not found.", given>> >> ELSE <<>>
          IN /\ image_path' = path
             /\ UNCHANGED uncaught
             /\ IF CanOpen(path)
                THEN /\ printed' = printed \o notFound
                     /\ pc' = "ground_truth"
                ELSE /\ printed' = printed \o notFound \o << <<"Could not open image:", path>> >>
                     /\ pc' = "returned"

\* lines 43-51; data.get('ground_truth_sets') is falsy when absent or empty
PlotGroundTruth ==
  /\ prog = "debug_viz" /\ pc = "ground_truth"
  /\ UNCHANGED << inputVars, csvVars, written, printed, uncaught, image_path, legend >>
  /\ LET sets == IF "ground_truth_sets" \in DOMAIN snapshot
                 THEN snapshot.ground_truth_sets ELSE <<>>
     IN /\ patches' = patches \o GroundTruthPatches(sets)
        /\ markers' = markers \o GroundTruthMarkers(sets)
  /\ pc' = "detections"

\* lines 54-69
PlotDetections ==
  /\ prog = "debug_viz" /\ pc = "detections"
  /\ UNCHANGED << inputVars, csvVars, written, uncaught, image_path, legend >>
  /\ LET out == PlotDetectionsFrom(snapshot.detections,
                  [lines |-> printed, patches |-> patches, markers |-> markers])
     IN /\ printed' = out.lines
        /\ patches' = out.patches
        /\ markers' = out.markers
  /\ pc' = "legend"

\* lines 71-80
LegendAndSave ==
  /\ prog = "debug_viz" /\ pc = "legend"
  /\ UNCHANGED << inputVars, csvVars, uncaught, image_path, patches, markers >>
  /\ LET handles == LabelledHandles(patches)
         labels == Column(handles, "label")
     IN legend' = DictZip(labels, handles)
  /\ written' = written \cup {"debug_viz.png"}
  /\ printed' = Append(printed, <<"Saved debug_viz.png">>)
  /\ pc' = "done"

Snapshots ==
  LET base == [valid : {TRUE}, image_path : {ImagePath},
               detections : SeqsUpTo(Detection, MaxDetections)]
  IN base \cup
     { b @@ [ground_truth_sets |-> g] :
         b \in base, g \in SeqsUpTo({Square}, MaxGroundTruth) }

\* The snapshot file is missing (then it has no content), unparsable, or holds
\* a snapshot; the raster is at image_path, one level up, at both or nowhere.
InitOverlay ==
  /\ prog = "debug_viz"
  /\ files \in SUBSET {DefaultJson, ImagePath, ParentImagePath}
  /\ IF DefaultJson \in files
     THEN snapshot \in Snapshots \cup {NoSnapshot}
     ELSE snapshot = NoSnapshot
  /\ IF files \cap {ImagePath, ParentImagePath} = {} \/ ~snapshot.valid
     THEN imageOk = FALSE
     ELSE imageOk \in BOOLEAN
  /\ columns = AllColumns /\ rows = <<>>
  /\ Idle

NextOverlay ==
  \/ OverlayLoad
  \/ PlotGroundTruth
  \/ PlotDetections
  \/ LegendAndSave

SpecOverlay == InitOverlay /\ [][NextOverlay]_vars

\* ============================================================ properties
RECURSIVE TableTotal(_)
TableTotal(t) ==
  IF DOMAIN t = {} THEN 0
  ELSE LET v == CHOOSE x \in DOMAIN t : TRUE
       IN t[v] + TableTotal([w \in DOMAIN t \ {v} |-> t[w]])

Count(s, Test(_)) == Len(SelectSeq(s, Test))

\* every line the scripts can print starts with one of these texts
KnownTexts ==
  { "Error: not found.", "Loading data...", "Generating time distribution plot...",
    "Generating success rates by defect type plot...",
    "Generating mean performance by defect type plot...",
    "Generating performance distribution by defect type plot...",
    "Done generating plots.", "File not found in current dir:", "Reading from:",
    "Total rows:", "FileNotFoundError", "KeyError", "Categories found:",
    "Counts per category:", "Successes by category (Correct status count):",
    "Libraries found:", "Decoded text counts for Incorrect status:", "value_counts",
    "Status counts for non-decoding categories:", "Sample rows from non-decoding:",
    "head", "Error: Image not found.", "Could not open image:", "Library:",
    "Saved debug_viz.png" }
\* a line that is none of them: a notice or a flag the source does not have
NoticePrinted == \E i \in 1..Len(printed) : printed[i][1] \notin KnownTexts

Ended == pc \in {"done", "returned", "crashed"}
VizLoaded == prog = "viz" /\ FileExists(DefaultCsv) /\ columns = AllColumns /\ pc # "start"

\* ------------------------------------------------------------ C1
\* C1: when no record has status Correct, generate_visualizations skips the
\* charts drawn from correct_decodes with a notice, still writes
\* success_by_defect.png, and reaches the end of the chart sequence.
C1_EmptySubsetSkipsOnlyItsChart ==
  (VizLoaded /\ Ended /\ rows # <<>> /\ Count(rows, LAMBDA r : r.status = "Correct") = 0)
    => /\ pc = "done"
       /\ "success_by_defect.png" \in written
       /\ "dist_time.png" \notin written
       /\ NoticePrinted

\* ------------------------------------------------------------ C2
StatusLines == SelectSeq(printed, LAMBDA m : m[1] = "Library:")
DetectionPatches == SelectSeq(patches, LAMBDA q : q.linestyle = "--")
CrossMarkers == SelectSeq(markers, LAMBDA m : m.marker = "x")

\* C2: once the base image has loaded and the detections were plotted, every
\* detection has its library and status in the status report, in order, and
\* the detection polygons and vertex markers are exactly those of the
\* detections with non-empty points; none has empty points.
C2_ReportedAlwaysDrawnIffPoints ==
  (prog = "debug_viz" /\ pc \in {"legend", "done"}) =>
    LET dets == snapshot.detections
        found == SelectSeq(dets, LAMBDA d : d.points # <<>>)
    IN /\ Len(StatusLines) = Len(dets)
       /\ \A i \in 1..Len(dets) :
            StatusLines[i] = <<"Library:", dets[i].library, "Status:", dets[i].status>>
       /\ Len(DetectionPatches) = Len(found)
       /\ \A j \in 1..Len(found) :
            /\ DetectionPatches[j].pts = found[j].points
            /\ DetectionPatches[j].label = <<found[j].library, found[j].status>>
       /\ \A q \in Range(DetectionPatches) : q.pts # <<>>
       /\ Len(CrossMarkers) = Sum([j \in 1..Len(found) |-> Len(found[j].points)])
       /\ \A m \in Range(CrossMarkers) :
            \E j \in 1..Len(found) : <<m.x, m.y>> \in Range(found[j].points)

C2_Witness ==
  /\ prog = "debug_viz" /\ pc = "done"
  /\ \E d \in Range(snapshot.detections) : d.points = <<>>
  /\ \E d \in Range(snapshot.detections) : d.points # <<>>

\* ------------------------------------------------------------ C3
\* C3: with ground_truth_sets = [] and one detection whose points = [], the
\* overlay has no polygons and its legend has a row for that library.
C3_EmptyDetectionInLegend ==
  (/\ prog = "debug_viz" /\ pc = "done"
   /\ "ground_truth_sets" \in DOMAIN snapshot
   /\ snapshot.ground_truth_sets = <<>>
   /\ Len(snapshot.detections) = 1
   /\ snapshot.detections[1].points = <<>>)
    => /\ patches = <<>>
       /\ \E i \in 1..Len(legend) :
            snapshot.detections[1].library \in Range(legend[i].label)

C5_AbortWithoutAsset ==
  prog = "debug_viz" =>
    /\ (/\ pc # "start"
        /\ \/ ~FileExists(DefaultJson)
           \/ /\ snapshot.valid
              /\ ~FileExists(snapshot.image_path)
              /\ ~FileExists(ParentOf(snapshot.image_path)))
         => /\ pc = "returned"
            /\ \E m \in Range(printed) :
                 m[1] \in {"Error: not found.", "Error: Image not found.", "Could not open image:"}
            /\ patches = <<>> /\ markers = <<>> /\ legend = <<>>
            /\ StatusLines = <<>>
            /\ "debug_viz.png" \notin written
    /\ "debug_viz.png" \in written
         => /\ FileExists(DefaultJson) /\ snapshot.valid
            /\ image_path \in {snapshot.image_path, ParentOf(snapshot.image_path)}
            /\ FileExists(image_path) /\ imageOk

C5_Witness ==
  /\ prog = "debug_viz" /\ pc = "returned"
  /\ FileExists(DefaultJson) /\ snapshot.valid
  /\ snapshot.detections # <<>>
  /\ ~FileExists(ImagePath) /\ ~FileExists(ParentImagePath)

\* ------------------------------------------------------------ C6
Matches(r, k) == \A f \in DOMAIN k : r[f] = k[f]
KeysOf(by) == { [f \in by |-> rows[i][f]] : i \in 1..Len(rows) }

\* the success rate of group k in percent, as <<numerator, denominator>>:
\* from the bar chart's data for category x library, from success_numeric
\* for library alone
SuccessRate(by, k) ==
  IF by = {"category", "library"}
  THEN Percent(charts["success_by_defect.png"][k].mean)
  ELSE Percent(MeanInt(Column(GroupBy(df, by)[k], "success_numeric")))

\* C6: every non-empty group (by library, by category and library) has a
\* success rate within [0, 100] percent, 0 exactly when none of its records
\* has status Correct and 100 exactly when all have; every other status
\* counts as a failure.
C6_SuccessRateBounds ==
  (prog = "viz" /\ "success_by_defect.png" \in written) =>
    /\ DOMAIN charts["success_by_defect.png"] = KeysOf({"category", "library"})
    /\ \A by \in {{"library"}, {"category", "library"}} :
         \A k \in KeysOf(by) :
           LET size == Count(rows, LAMBDA r : Matches(r, k))
               correct == Count(rows, LAMBDA r : Matches(r, k) /\ r.status = "Correct")
               rate == SuccessRate(by, k)
           IN /\ rate[2] = size /\ size > 0
              /\ 0 <= rate[1] /\ rate[1] <= 100 * rate[2]
              /\ (rate[1] = 0) <=> (correct = 0)
              /\ (rate[1] = 100 * rate[2]) <=> (correct = size)
              /\ rate[1] = 100 * correct

C6_Witness ==
  /\ prog = "viz" /\ "success_by_defect.png" \in written
  /\ \E k \in KeysOf({"category", "library"}) :
       /\ Count(rows, LAMBDA r : Matches(r, k) /\ r.status = "Correct") = 1
       /\ Count(rows, LAMBDA r : Matches(r, k) /\ r.status = "NotFound") = 1

\* ------------------------------------------------------------ C7
PrintedTable(text) ==
  LET i == CHOOSE j \in 1..Len(printed) : printed[j][1] = text IN printed[i][2]

\* C7: each printed frequency table has counts that sum to the size of the
\* filtered subset it was computed over, also when records of the subset
\* have an empty value for the field.
C7_CountsSumToSubset ==
  /\ (prog = "debug_decoded" /\ pc = "done")
       => TableTotal(PrintedTable("value_counts"))
            = Count(rows, LAMBDA r : r.status = "Incorrect")
  /\ (prog = "debug_status" /\ pc = "done")
       => TableTotal(PrintedTable("value_counts"))
            = Count(rows, LAMBDA r : r.category # "decoding")
  /\ (prog = "debug_data" /\ pc = "done" /\ df # <<>> /\ HasColumn("category"))
       => TableTotal(PrintedTable("Counts per category:")) = Len(rows)

\* ------------------------------------------------------------ C8
Inconsistent(r) == r.status = "Correct" /\ r.decoded_text # r.expected_text

\* C8: a record with status Correct whose decoded_text differs from
\* expected_text is counted as a success, or gives its duration to the
\* correct-only statistics, only where the inconsistency is reported.
C8_InconsistencyFlagged ==
  /\ (VizLoaded /\ HasColumn("duration_us"))
       => \A i \in 1..Len(df) :
            (Inconsistent(df[i]) /\ (df[i].success_numeric = 1 \/ df[i] \in Range(correct_decodes)))
              => NoticePrinted
  /\ (prog = "debug_data" /\ pc = "done" /\ df # <<>> /\ HasColumn("category"))
       => ((\E i \in 1..Len(df) : Inconsistent(df[i])) => NoticePrinted)

\* ------------------------------------------------------------ C9
DurationCharts == {"dist_time.png", "perf_by_defect_mean.png", "perf_by_defect_dist.png"}
ChartKeys(file) == IF file = "dist_time.png" THEN {"library"} ELSE {"category", "library"}

\* C9: every duration chart holds, per group, exactly the durations (in ms) of
\* the group's records with status Correct, in order; a group without any
\* has no entry in the chart (no statistic at all, not 0), and a mean is
\* taken over at least one sample.
C9_DurationsFromCorrectOnly ==
  prog = "viz" =>
    \A file \in DurationCharts \cap DOMAIN charts :
      \A k \in KeysOf(ChartKeys(file)) :
        LET good == SelectSeq(rows, LAMBDA r : Matches(r, k) /\ r.status = "Correct")
        IN /\ (good = <<>>) <=> (k \notin DOMAIN charts[file])
           /\ good # <<>> =>
                /\ charts[file][k].samples
                     = [i \in 1..Len(good) |-> <<good[i].duration_us, 1000>>]
                /\ file = "perf_by_defect_mean.png" =>
                     /\ charts[file][k].mean[2] = 1000 * Len(good)
                     /\ charts[file][k].mean[1]
                          = Sum([i \in 1..Len(good) |-> good[i].duration_us])

C9_Witness ==
  /\ prog = "viz" /\ pc = "done"
  /\ \E k \in KeysOf({"category", "library"}) :
       /\ k \notin DOMAIN charts["perf_by_defect_mean.png"]
       /\ k \notin DOMAIN charts["perf_by_defect_dist.png"]
  /\ \E k \in KeysOf({"category", "library"}) :
       k \in DOMAIN charts["perf_by_defect_mean.png"]

\* ------------------------------------------------------------ C10
ExpectedColor(lib) ==
  CASE lib = "rqrr" -> "blue"
    [] lib = "rxing" -> "red"
    [] lib = "bardecoder" -> "orange"
    [] lib = "GroundTruth" -> "green"
    [] OTHER -> "purple"

\* C10: the legend has no two rows with the same label: at most one
\* 'Ground Truth' row and one row per distinct '<library> (<status>)' label,
\* each labelled polygon being represented; each detection polygon has the
\* colour mapped to its library, purple when the library is not in the map.
C10_LegendDeduplicated ==
  (prog = "debug_viz" /\ pc = "done") =>
    /\ \A i, j \in 1..Len(legend) : legend[i].label = legend[j].label => i = j
    /\ Cardinality({ i \in 1..Len(legend) : legend[i].label = <<"Ground Truth">> }) <= 1
    /\ { legend[i].label : i \in 1..Len(legend) }
         = { q.label : q \in Range(patches) } \ {<<>>}
    /\ \A i \in 1..Len(legend) : legend[i].handle \in Range(patches)
    /\ \A q \in Range(DetectionPatches) : q.edgecolor = ExpectedColor(q.label[1])

C10_Witness ==
  /\ prog = "debug_viz" /\ pc = "done"
  /\ "ground_truth_sets" \in DOMAIN snapshot
  /\ Len(snapshot.ground_truth_sets) >= 2
  /\ Len(snapshot.detections) >= 2
  /\ snapshot.detections[1] = snapshot.detections[2]
  /\ snapshot.detections[1].points # <<>>
  /\ snapshot.detections[1].library = "zbar"

====
